---- MODULE Spec2Model ----
(***************************************************************************)
(* A model of lib/cisco.py, the Cisco ACL renderer.                        *)
(*                                                                         *)
(* Text is modelled as it is built.  A line is a sequence of words whose   *)
(* join with single blanks is the text of the line (an empty %s field is   *)
(* the empty word "", so that a leading blank or a doubled blank of the    *)
(* Python format string is kept).  A string that holds newlines is the     *)
(* sequence of its lines; an element of a list that Python joins with      *)
(* '\n' is such a sequence ("chunk"), and the join is the concatenation of *)
(* the chunks.  Strings the code inspects character by character (filter   *)
(* names, options, comment lines, protocol names) are sequences of         *)
(* one-character strings.                                                  *)
(***************************************************************************)
EXTENDS Integers, Sequences, FiniteSets, TLC

VARIABLES
  pol,      \* the policy object handed to Cisco(pol): a sequence of filters
  acl,      \* outcome of the last Cisco.__init__: "none", "ok" or the error
  ncons,    \* number of constructions over this policy so far
  nrender,  \* number of render calls since the last construction
  doc,      \* outcome of the last Cisco.__str__
  term,     \* a policy term handed directly to one of the term renderers
  tout,     \* outcome of the last term-renderer call on term
  og,       \* ObjectGroup.terms of an object-group filter being assembled
  oglines,  \* the ObjectGroupTerm output collected for the terms of og
  ogout     \* outcome of the last ObjectGroup.__str__

vars == <<pol, acl, ncons, nrender, doc, term, tout, og, oglines, ogout>>

----------------------------------------------------------------------------
(* Bounds of the model.                                                    *)

MaxFilters == 2      \* filters declared by a policy
MaxCons == 2         \* constructions of the assembler over one policy
MaxRenders == 2      \* render calls after one construction
MaxAddrs == 2        \* addresses in one address field of a term
MaxPorts == 2        \* port ranges in one port field of a term
MaxProtos == 2       \* protocols of a term
MaxGroupTerms == 5   \* terms added to one ObjectGroup

----------------------------------------------------------------------------
(* Generic helpers.                                                        *)

Min(a, b) == IF a < b THEN a ELSE b

\* for x in s: out.extend(F(x))
FlatMap(s, F(_)) ==
  LET acc[i \in 0..Len(s)] == IF i = 0 THEN <<>> ELSE acc[i-1] \o F(s[i])
  IN acc[Len(s)]

\* [x for x in s if P(x)]
Filter(s, P(_)) == FlatMap(s, LAMBDA x : IF P(x) THEN <<x>> ELSE <<>>)

\* x in s, for a list s
InSeq(x, s) == \E i \in 1..Len(s) : s[i] = x

\* Python truth value of a list-like field
Truthy(x) == Len(x) > 0

\* ''.join(cs) for a sequence of one-character strings
Str(cs) ==
  LET acc[i \in 0..Len(cs)] == IF i = 0 THEN "" ELSE acc[i-1] \o cs[i]
  IN acc[Len(cs)]

Digit == <<"0", "1", "2", "3", "4", "5", "6", "7", "8", "9">>

\* '%d' % n, n >= 0
RECURSIVE IntToStr(_)
IntToStr(n) ==
  IF n < 10 THEN Digit[n + 1] ELSE IntToStr(n \div 10) \o Digit[(n % 10) + 1]

\* the chunk of the list element '\n'
NL == << <<>>, <<>> >>

\* '\n'.join(chunks), as the sequence of the lines of the result
JoinNL(chunks) ==
  IF Len(chunks) = 0 THEN << <<>> >> ELSE FlatMap(chunks, LAMBDA c : c)

----------------------------------------------------------------------------
(* lines 29-35: _ACTION_TABLE                                              *)

ActionKeys == {"accept", "deny", "reject", "next", "reject-with-tcp-rst"}

\* the words of '%s' % _ACTION_TABLE.get(str(action[0]))
ActionWords(a) ==
  CASE a = "accept" -> <<"permit">>
    [] a = "deny" -> <<"deny">>
    [] a = "reject" -> <<"deny">>
    [] a = "next" -> <<"!", "next">>
    [] a = "reject-with-tcp-rst" -> <<"deny">>
    [] OTHER -> <<"None">>

----------------------------------------------------------------------------
(* lines 38-54: FixupProtocol.  A protocol is a string or a number; the    *)
(* string is held as its characters (field s).                             *)

ProtoName(s) == [isstr |-> TRUE, s |-> s, n |-> 0]
ProtoNum(n) == [isstr |-> FALSE, s |-> <<>>, n |-> n]

\* the lower-case letter of each upper-case letter
LowerOf ==
  ("A" :> "a") @@ ("B" :> "b") @@ ("C" :> "c") @@ ("D" :> "d") @@
  ("E" :> "e") @@ ("F" :> "f") @@ ("G" :> "g") @@ ("H" :> "h") @@
  ("I" :> "i") @@ ("J" :> "j") @@ ("K" :> "k") @@ ("L" :> "l") @@
  ("M" :> "m") @@ ("N" :> "n") @@ ("O" :> "o") @@ ("P" :> "p") @@
  ("Q" :> "q") @@ ("R" :> "r") @@ ("S" :> "s") @@ ("T" :> "t") @@
  ("U" :> "u") @@ ("V" :> "v") @@ ("W" :> "w") @@ ("X" :> "x") @@
  ("Y" :> "y") @@ ("Z" :> "z")

\* proto.lower(), on the characters of the string
Lower(s) ==
  [i \in 1..Len(s) |-> IF s[i] \in DOMAIN LowerOf THEN LowerOf[s[i]]
                                                   ELSE s[i]]

\* socket.getprotobyname: the protocols database of the host, by the
\* lower-case names and aliases it holds; a name it does not hold raises
\* socket.error
ProtoByName ==
  ("ah" :> 51) @@ ("ax.25" :> 93) @@ ("dccp" :> 33) @@ ("ddp" :> 37) @@
  ("egp" :> 8) @@ ("eigrp" :> 88) @@ ("encap" :> 98) @@ ("esp" :> 50) @@
  ("etherip" :> 97) @@ ("ethernet" :> 143) @@ ("fc" :> 133) @@
  ("ggp" :> 3) @@ ("gre" :> 47) @@ ("hip" :> 139) @@ ("hmp" :> 20) @@
  ("hopopt" :> 0) @@ ("icmp" :> 1) @@ ("idpr-cmtp" :> 38) @@
  ("idrp" :> 45) @@ ("igmp" :> 2) @@ ("igp" :> 9) @@ ("ip" :> 0) @@
  ("ipcomp" :> 108) @@ ("ipencap" :> 4) @@ ("ipip" :> 94) @@
  ("ipv6" :> 41) @@ ("ipv6-frag" :> 44) @@ ("ipv6-icmp" :> 58) @@
  ("ipv6-nonxt" :> 59) @@ ("ipv6-opts" :> 60) @@ ("ipv6-route" :> 43) @@
  ("isis" :> 124) @@ ("iso-tp4" :> 29) @@ ("l2tp" :> 115) @@
  ("manet" :> 138) @@ ("mobility-header" :> 135) @@
  ("mpls-in-ip" :> 137) @@ ("mptcp" :> 262) @@ ("ospf" :> 89) @@
  ("pim" :> 103) @@ ("pup" :> 12) @@ ("rdp" :> 27) @@ ("rohc" :> 142) @@
  ("rspf" :> 73) @@ ("rsvp" :> 46) @@ ("sctp" :> 132) @@
  ("shim6" :> 140) @@ ("skip" :> 57) @@ ("st" :> 5) @@ ("tcp" :> 6) @@
  ("udp" :> 17) @@ ("udplite" :> 136) @@ ("vmtp" :> 81) @@
  ("vrrp" :> 112) @@ ("wesp" :> 141) @@ ("xns-idp" :> 22) @@ ("xtp" :> 36)

\* lines 38-54: FixupProtocol
FixupProtocol(proto) ==
  IF proto.isstr
    THEN IF Str(Lower(proto.s)) \in DOMAIN ProtoByName
           THEN ProtoNum(ProtoByName[Str(Lower(proto.s))])
           ELSE proto
    ELSE proto

\* '%s' % proto
ProtoStr(proto) ==
  IF proto.isstr THEN Str(proto.s) ELSE IntToStr(proto.n)

\* 6 in protocol
HasTcp(protocol) ==
  \E i \in 1..Len(protocol) : ~protocol[i].isstr /\ protocol[i].n = 6

----------------------------------------------------------------------------
(* Addresses (nacaddr.IPv4 / nacaddr.IPv6) and the 'any' sentinel.         *)

Addr(v, ip, len, tok) ==
  [version |-> v, ip |-> ip, prefixlen |-> len, token |-> tok,
   parent_token |-> tok]

\* the string 'any' that stands for an unset address field (lines 368, 382)
AnyStr == [version |-> 0, ip |-> "any", prefixlen |-> 0, token |-> "",
           parent_token |-> ""]

\* nacaddr.IPv4('0.0.0.0/0', token='ANY') (lines 276, 281)
AnyV4 == Addr(4, "0.0.0.0", 0, "ANY")

\* addr.numhosts > 1
ManyHosts(a) == a.prefixlen < (IF a.version = 4 THEN 32 ELSE 128)

\* addr.hostmask and addr.netmask of an IPv4 network
Hostmask(a) ==
  CASE a.prefixlen = 0 -> "255.255.255.255"
    [] a.prefixlen = 8 -> "0.255.255.255"
    [] a.prefixlen = 24 -> "0.0.0.255"
    [] OTHER -> "0.0.0.0"

Netmask(a) ==
  CASE a.prefixlen = 0 -> "0.0.0.0"
    [] a.prefixlen = 8 -> "255.0.0.0"
    [] a.prefixlen = 24 -> "255.255.255.0"
    [] OTHER -> "255.255.255.255"

\* str(addr): the network in prefix notation
AddrStr(a) == (a.ip \o "/") \o IntToStr(a.prefixlen)

\* term.GetAddressOfVersion(field, af), given the list of the field
GetAddressOfVersion(addrs, af) == Filter(addrs, LAMBDA a : a.version = af)

\* nacaddr.ExcludeAddrs(addrs, excl); the networks of the model are pairwise
\* disjoint, so the difference is the list without the excluded networks
ExcludeAddrs(addrs, excl) == Filter(addrs, LAMBDA a : ~InSeq(a, excl))

----------------------------------------------------------------------------
(* Options are strings the code searches with str.find.                    *)

OptEstablished == <<"e", "s", "t", "a", "b", "l", "i", "s", "h", "e", "d">>
OptTcpEstablished == <<"t", "c", "p", "-">> \o OptEstablished
OptSample == <<"s", "a", "m", "p", "l", "e">>

\* opt.find(pat) == 0
FindAtZero(opt, pat) ==
  Len(opt) >= Len(pat) /\ SubSeq(opt, 1, Len(pat)) = pat

----------------------------------------------------------------------------
(* Terms of the policy model.                                              *)

EmptyTerm ==
  [name |-> "t", comment |-> <<>>, action |-> <<"accept">>,
   protocol |-> <<>>,
   source_address |-> <<>>, source_address_exclude |-> <<>>,
   destination_address |-> <<>>, destination_address_exclude |-> <<>>,
   option |-> <<>>, source_port |-> <<>>, destination_port |-> <<>>,
   counter |-> <<>>, logging |-> <<>>, verbatim |-> <<>>, address |-> <<>>]

\* the width a comment line is cut to in Term.__str__ (line 340)
RemarkWidth == 100

\* the remark chunks of a term: lines 111-114, 252-255, 337-340; cut tells
\* whether the renderer cuts each comment line to RemarkWidth characters
RemarkChunks(t, cut) ==
  << << <<"remark", t.name>> >> >> \o
  FlatMap(t.comment, LAMBDA comment :
    FlatMap(comment, LAMBDA line :
      << << <<"remark",
              Str(IF cut THEN SubSeq(line, 1, Min(Len(line), RemarkWidth))
                         ELSE line)>> >> >>))

\* lines 118-122, 259-263, 344-348: the body of `if self.term.verbatim:`.
\* The return statement is in the body of the for loop: the loop ends in its
\* first iteration.
VerbatimChunks(t) ==
  IF t.verbatim[1][1] = "cisco" THEN << << <<t.verbatim[1][2]>> >> >> ELSE <<>>

----------------------------------------------------------------------------
(* lines 78-140: TermStandard                                              *)

\* TermStandard.__init__ with its sixth check left out
TermStandardInitNoLogging(t) ==
  IF Truthy(t.protocol) THEN "StandardAclTermError"
  ELSE IF Truthy(t.source_address) \/ Truthy(t.source_address_exclude)
          \/ Truthy(t.destination_address)
          \/ Truthy(t.destination_address_exclude)
    THEN "StandardAclTermError"
  ELSE IF Truthy(t.option) THEN "StandardAclTermError"
  ELSE IF Truthy(t.source_port) \/ Truthy(t.destination_port)
    THEN "StandardAclTermError"
  ELSE IF Truthy(t.counter) THEN "StandardAclTermError"
  ELSE "ok"

\* lines 81-106: the error TermStandard.__init__ raises, or "ok"
TermStandardInit(t) ==
  IF Truthy(t.protocol) THEN "StandardAclTermError"
  ELSE IF Truthy(t.source_address) \/ Truthy(t.source_address_exclude)
          \/ Truthy(t.destination_address)
          \/ Truthy(t.destination_address_exclude)
    THEN "StandardAclTermError"
  ELSE IF Truthy(t.option) THEN "StandardAclTermError"
  ELSE IF Truthy(t.source_port) \/ Truthy(t.destination_port)
    THEN "StandardAclTermError"
  ELSE IF Truthy(t.counter) THEN "StandardAclTermError"
  ELSE IF Truthy(t.logging) THEN "StandardAclTermError"
  ELSE "ok"

\* lines 108-140: TermStandard.__str__, filter_name a string
TermStandardStr(t, filter_name) ==
  LET head == RemarkChunks(t, FALSE)
      AddrChunk(addr) ==
        IF addr.version = 6 THEN <<>>
        ELSE IF addr.prefixlen = 32
          THEN << << <<"access-list", filter_name>> \o
                     ActionWords(t.action[1]) \o <<addr.ip>> >> >>
          ELSE << << <<"access-list", filter_name>> \o
                     ActionWords(t.action[1]) \o
                     <<addr.ip, Hostmask(addr)>> >> >>
  IN IF Truthy(t.verbatim)
       THEN JoinNL(head \o VerbatimChunks(t))
       ELSE JoinNL(head \o FlatMap(t.address, AddrChunk))

----------------------------------------------------------------------------
(* lines 228-320: ObjectGroupTerm                                          *)

\* 'portgroup %d-%d' % (port[0], port[1]), or '' for the empty sentinel
PortGroupWords(port) ==
  IF port # <<>>
    THEN <<"portgroup", (IntToStr(port[1]) \o "-") \o IntToStr(port[2])>>
    ELSE <<"">>

\* lines 302-320: ObjectGroupTerm._TermletToStr
ObjectGroupTermletToStr(action, proto, saddr, sport, daddr, dport) ==
  <<"">> \o ActionWords(action) \o <<ProtoStr(proto)>> \o
  <<"addrgroup", AddrStr(saddr)>> \o PortGroupWords(sport) \o
  <<"addrgroup", AddrStr(daddr)>> \o PortGroupWords(dport)

\* lines 247-300: ObjectGroupTerm.__str__
ObjectGroupTermStr(t) ==
  LET head == <<NL>> \o RemarkChunks(t, FALSE)
      protocol == IF ~Truthy(t.protocol) THEN <<ProtoName(<<"i", "p">>)>>
                  ELSE [i \in 1..Len(t.protocol) |->
                          FixupProtocol(t.protocol[i])]
      source_address == IF ~Truthy(t.source_address) THEN <<AnyV4>>
                        ELSE t.source_address
      destination_address == IF ~Truthy(t.destination_address) THEN <<AnyV4>>
                             ELSE t.destination_address
      source_port == IF Truthy(t.source_port) THEN t.source_port
                     ELSE << <<>> >>
      destination_port == IF Truthy(t.destination_port)
                            THEN t.destination_port ELSE << <<>> >>
      body ==
        FlatMap(source_address, LAMBDA saddr :
          FlatMap(destination_address, LAMBDA daddr :
            FlatMap(source_port, LAMBDA sport :
              FlatMap(destination_port, LAMBDA dport :
                FlatMap(protocol, LAMBDA proto :
                  << << ObjectGroupTermletToStr(t.action[1], proto, saddr,
                                                sport, daddr, dport) >> >>)))))
  IN IF Truthy(t.verbatim)
       THEN JoinNL(head \o VerbatimChunks(t))
       ELSE JoinNL(head \o body)

----------------------------------------------------------------------------
(* lines 143-225: ObjectGroup                                              *)

\* ObjectGroup.__str__ without the test that a token was seen before
ObjectGroupStrNoSeen(terms) ==
  LET AddrBlock(addrs) ==
        << << <<"object-group", "ip", "address", addrs[1].parent_token>> >> >>
        \o [i \in 1..Len(addrs) |->
              << <<"", addrs[i].ip, Netmask(addrs[i])>> >>]
        \o << << <<"exit">>, <<>> >> >>
      PortKey(port) == (IntToStr(port[1]) \o "-") \o IntToStr(port[2])
      PortBlock(port) ==
        << << <<"object-group", "ip", "port", PortKey(port)>> >>,
           IF port[1] # port[2]
             THEN << <<"", "range", IntToStr(port[1]), IntToStr(port[2])>> >>
             ELSE << <<"", "eq", IntToStr(port[1])>> >>,
           << <<"exit">>, <<>> >> >>
      ret[k \in 0..Len(terms)] ==
        IF k = 0 THEN <<NL>>
        ELSE LET t == terms[k]
                 saddrs == GetAddressOfVersion(t.source_address, 4)
                 daddrs == GetAddressOfVersion(t.destination_address, 4)
             IN ret[k-1]
                \o (IF Truthy(saddrs) THEN AddrBlock(saddrs) ELSE <<>>)
                \o (IF Truthy(daddrs) THEN AddrBlock(daddrs) ELSE <<>>)
                \o FlatMap(t.source_port \o t.destination_port,
                           LAMBDA port :
                             IF port = <<>> THEN <<>> ELSE PortBlock(port))
  IN JoinNL(ret[Len(terms)])

\* lines 178-225: ObjectGroup.__str__ over self.terms.  st is the state
\* of the loop: the keys of the dicts addresses and ports, and ret_str.
ObjectGroupStr(terms) ==
  LET AddrBlock(addrs) ==
        << << <<"object-group", "ip", "address", addrs[1].parent_token>> >> >>
        \o [i \in 1..Len(addrs) |->
              << <<"", addrs[i].ip, Netmask(addrs[i])>> >>]
        \o << << <<"exit">>, <<>> >> >>
      PortKey(port) == (IntToStr(port[1]) \o "-") \o IntToStr(port[2])
      PortBlock(port) ==
        << << <<"object-group", "ip", "port", PortKey(port)>> >>,
           IF port[1] # port[2]
             THEN << <<"", "range", IntToStr(port[1]), IntToStr(port[2])>> >>
             ELSE << <<"", "eq", IntToStr(port[1])>> >>,
           << <<"exit">>, <<>> >> >>
      \* lines 194-199 and 204-209
      AddrStep(st, addrs) ==
        IF Truthy(addrs) /\ addrs[1].parent_token \notin st.addresses
          THEN [st EXCEPT !.addresses = @ \cup {addrs[1].parent_token},
                          !.ret_str = @ \o AddrBlock(addrs)]
          ELSE st
      \* lines 213-223, one iteration
      PortStep(st, port) ==
        IF port = <<>> THEN st
        ELSE IF PortKey(port) \notin st.ports
          THEN [st EXCEPT !.ports = @ \cup {PortKey(port)},
                          !.ret_str = @ \o PortBlock(port)]
          ELSE st
      PortLoop(st0, ps) ==
        LET f[i \in 0..Len(ps)] ==
              IF i = 0 THEN st0 ELSE PortStep(f[i-1], ps[i])
        IN f[Len(ps)]
      loop[k \in 0..Len(terms)] ==
        IF k = 0 THEN [addresses |-> {}, ports |-> {}, ret_str |-> <<NL>>]
        ELSE LET t == terms[k]
                 s1 == AddrStep(loop[k-1],
                                GetAddressOfVersion(t.source_address, 4))
                 s2 == AddrStep(s1,
                                GetAddressOfVersion(t.destination_address, 4))
             IN PortLoop(s2, t.source_port \o t.destination_port)
  IN JoinNL(loop[Len(terms)].ret_str)

----------------------------------------------------------------------------
(* lines 323-490: Term, the extended renderer                              *)

\* the effective address list with a fall-back to 'any' when no address of
\* the family is left
EffectiveAddressesAnyFallback(addrs, excl, af) ==
  IF Truthy(addrs)
    THEN LET a == GetAddressOfVersion(addrs, af)
             x == GetAddressOfVersion(excl, af)
             r == IF Truthy(x) THEN ExcludeAddrs(a, x) ELSE a
         IN IF Truthy(r) THEN r ELSE <<AnyStr>>
    ELSE <<AnyStr>>

\* lines 357-368 and 370-382: the address list the loops run over
EffectiveAddresses(addrs, excl, af) ==
  IF Truthy(addrs)
    THEN LET a == GetAddressOfVersion(addrs, af)
             x == GetAddressOfVersion(excl, af)
         IN IF Truthy(x) THEN ExcludeAddrs(a, x) ELSE a
    ELSE <<AnyStr>>

\* the options loop without the test for TCP
ExtraOptionsAnyProtocol(option, protocol) ==
  FlatMap(option, LAMBDA opt :
    IF FindAtZero(opt, OptTcpEstablished) THEN <<"established">>
    ELSE IF FindAtZero(opt, OptEstablished) THEN <<"established">>
    ELSE <<>>)

\* lines 384-391: extra_options
ExtraOptions(option, protocol) ==
  FlatMap(option, LAMBDA opt :
    IF FindAtZero(opt, OptTcpEstablished) /\ HasTcp(protocol)
      THEN <<"established">>
    ELSE IF FindAtZero(opt, OptEstablished) /\ HasTcp(protocol)
      THEN <<"established">>
    ELSE <<>>)

\* lines 449-469: the text of an address in a match line
AddrWords(a) ==
  IF a.version = 4
    THEN IF ManyHosts(a) THEN <<a.ip, Hostmask(a)>> ELSE <<"host", a.ip>>
  ELSE IF a.version = 6
    THEN IF ManyHosts(a) THEN <<(a.ip \o "/") \o IntToStr(a.prefixlen)>>
                         ELSE <<"host", a.ip>>
  ELSE <<a.ip>>

\* lines 472-484: the text of a port range in a match line
PortWords(port) ==
  IF port = <<>> THEN <<"">>
  ELSE IF port[1] # port[2]
    THEN <<"range", IntToStr(port[1]), IntToStr(port[2])>>
    ELSE <<"eq", IntToStr(port[1])>>

\* lines 433-490: Term._TermletToStr
TermletToStr(action, proto, saddr, sport, daddr, dport, option) ==
  <<"">> \o ActionWords(action) \o <<ProtoStr(proto)>> \o AddrWords(saddr)
  \o PortWords(sport) \o AddrWords(daddr) \o PortWords(dport)
  \o (IF ~Truthy(option) THEN <<"">> ELSE option)

\* lines 326-431: str(Term(term, af))
TermStr(t, af0) ==
  LET af == IF af0 = 6 THEN 6 ELSE 4
      head == <<NL>> \o RemarkChunks(t, TRUE)
      protocol == IF ~Truthy(t.protocol) THEN <<ProtoName(<<"i", "p">>)>>
                  ELSE [i \in 1..Len(t.protocol) |->
                          FixupProtocol(t.protocol[i])]
      source_address ==
        EffectiveAddresses(t.source_address, t.source_address_exclude, af)
      destination_address ==
        EffectiveAddresses(t.destination_address,
                           t.destination_address_exclude, af)
      options == ExtraOptions(t.option, protocol)
                 \o (IF Truthy(t.logging) THEN <<"log">> ELSE <<>>)
      source_port == IF Truthy(t.source_port) THEN t.source_port
                     ELSE << <<>> >>
      destination_port == IF Truthy(t.destination_port)
                            THEN t.destination_port ELSE << <<>> >>
      DoOutput(saddr, daddr) ==
        \/ af = 4 /\ saddr.version \in {4, 0} /\ daddr.version \in {4, 0}
        \/ af = 6 /\ saddr.version \in {6, 0} /\ daddr.version \in {6, 0}
      body ==
        FlatMap(source_address, LAMBDA saddr :
          FlatMap(destination_address, LAMBDA daddr :
            FlatMap(source_port, LAMBDA sport :
              FlatMap(destination_port, LAMBDA dport :
                FlatMap(protocol, LAMBDA proto :
                  IF DoOutput(saddr, daddr)
                    THEN << << TermletToStr(t.action[1], proto, saddr, sport,
                                            daddr, dport, options) >> >>
                    ELSE <<>>)))))
  IN IF Truthy(t.verbatim)
       THEN JoinNL(head \o VerbatimChunks(t))
       ELSE JoinNL(head \o body)

----------------------------------------------------------------------------
(* Headers and filters of the policy model.  A filter is a pair            *)
(* (header, terms) of pol.filters; pol.headers are the headers of the      *)
(* filters.  A header holds its target platforms and, for the target       *)
(* 'cisco', the filter name and the options that follow the name; interned *)
(* tells whether the string object of the first such option is the very    *)
(* object of the literal 'extended' of cisco.py (what `is` compares).      *)

Header(platforms, name, subtype, interned, comment) ==
  [platforms |-> platforms, name |-> name, subtype |-> subtype,
   interned |-> interned, comment |-> comment]

\* header.FilterName('cisco'), as characters
FilterName(h) == h.name

\* header.FilterOptions('cisco'): the name, then the options after it
FilterOptions(h) == <<Str(h.name)>> \o h.subtype

\* filter_name.isdigit()
IsDigit(name) ==
  Len(name) > 0 /\ \A i \in 1..Len(name) : InSeq(name[i], Digit)

\* int(filter_name), for a name of digits
ToInt(name) ==
  LET DigitVal(c) == (CHOOSE d \in 1..10 : Digit[d] = c) - 1
      acc[i \in 0..Len(name)] ==
        IF i = 0 THEN 0 ELSE 10 * acc[i-1] + DigitVal(name[i])
  IN acc[Len(name)]

\* line 518: good_filters
GoodFilters == {"extended", "standard", "object-group", "inet6", "mixed"}

\* lines 521-525: target_header
TargetHeader == << << <<"!", "$Id:$">> >>, << <<"!", "$Date:$">> >> >>

----------------------------------------------------------------------------
(* lines 493-510: Cisco.__init__                                           *)

\* lines 508-510 for one term
HighPorts(t) ==
  LET add == FlatMap(t.option, LAMBDA opt :
               IF FindAtZero(opt, OptEstablished)
                 THEN << <<1024, 65535>> >> ELSE <<>>)
  IN [t EXCEPT !.destination_port = @ \o add]

\* lines 506-510 over all filters of the policy
HighPortsAll(p) ==
  [i \in 1..Len(p) |->
    [p[i] EXCEPT !.terms = [j \in 1..Len(p[i].terms) |->
                              HighPorts(p[i].terms[j])]]]

\* lines 498-510: the error raised, or "ok", and the policy afterwards
CiscoInit(p) ==
  IF \E i \in 1..Len(p) : ~InSeq("cisco", p[i].header.platforms)
    THEN [err |-> "NoCiscoPolicyError", pol |-> p]
    ELSE [err |-> "ok", pol |-> HighPortsAll(p)]

----------------------------------------------------------------------------
(* lines 512-603: Cisco.__str__                                            *)
(* The state of the loops is a record: err ("ok" or the error raised),     *)
(* target (the list target, one chunk per element), terms (the terms of    *)
(* obj_target) and parts (for each term rendered: the filter type, the     *)
(* term and the lines of its text, as appended to target).                 *)

\* lines 584-593: what one iteration of `for term in terms` appends, given
\* the outcome of the term's constructor (raised) and its text
AppendTerm(st, filter_type, t, raised, text) ==
  IF raised # "ok" THEN [st EXCEPT !.err = raised]
  ELSE IF filter_type = "object-group"
    THEN [st EXCEPT !.terms = Append(@, t),
                    !.target = Append(@, text),
                    !.parts = Append(@, [ftype |-> filter_type, t |-> t,
                                         lines |-> text])]
  ELSE IF filter_type \in {"standard", "extended", "inet6"}
    THEN [st EXCEPT !.target = Append(@, text),
                    !.parts = Append(@, [ftype |-> filter_type, t |-> t,
                                         lines |-> text])]
  ELSE st

\* lines 584-593: one iteration of `for term in terms`
AddTermToTarget(st, filter_type, filter_name, t) ==
  IF st.err # "ok" THEN st
  ELSE AppendTerm(st, filter_type, t,
         IF filter_type = "standard" THEN TermStandardInit(t) ELSE "ok",
         IF filter_type = "standard" THEN TermStandardStr(t, Str(filter_name))
         ELSE IF filter_type = "extended" THEN TermStr(t, 4)
         ELSE IF filter_type = "object-group" THEN ObjectGroupTermStr(t)
         ELSE TermStr(t, 6))

\* lines 584-595: the iterations of `for term in terms` from the j-th term
\* on, and the blank line that ends the filter type
RECURSIVE AddTermsFrom(_, _, _, _, _)
AddTermsFrom(st, filter_type, filter_name, terms, j) ==
  IF j > Len(terms)
    THEN IF st.err # "ok" THEN st ELSE [st EXCEPT !.target = Append(@, NL)]
    ELSE AddTermsFrom(AddTermToTarget(st, filter_type, filter_name, terms[j]),
                      filter_type, filter_name, terms, j + 1)

\* 1 <= int(filter_name) <= 99
InStandardRange(name) == 1 <= ToInt(name) /\ ToInt(name) <= 99

\* lines 546-595: one iteration of `for filter_type in filter_list`;
\* same is the value of `filter_type is 'extended'`
RenderFilterType(st, filter_type, same, h, terms) ==
  LET filter_name == FilterName(h)
      name == Str(filter_name)
  IN IF st.err # "ok" THEN st
     ELSE IF same /\ IsDigit(filter_name) /\ InStandardRange(filter_name)
       THEN [st EXCEPT !.err = "UnsupportedCiscoAccessListError"]
     ELSE IF filter_type = "standard" /\ ~IsDigit(filter_name)
       THEN [st EXCEPT !.err = "UnsupportedCiscoAccessListError"]
     ELSE IF filter_type = "standard" /\ ~InStandardRange(filter_name)
       THEN [st EXCEPT !.err = "UnsupportedCiscoAccessListError"]
     ELSE
       LET preamble ==
             (IF same
                THEN << << <<"no", "ip", "access-list", "extended", name>> >>,
                        << <<"ip", "access-list", "extended", name>> >> >>
                ELSE <<>>)
             \o (IF filter_type = "standard"
                   THEN << << <<"no", "ip", "access-list", name>> >> >>
                   ELSE <<>>)
             \o (IF filter_type = "object-group"
                   THEN << << <<"no", "ip", "access-list", "extended",
                               name>> >>,
                           << <<"ip", "access-list", "extended", name>> >> >>
                   ELSE <<>>)
             \o (IF filter_type = "inet6"
                   THEN << << <<"no", "ipv6", "access-list", name>> >>,
                           << <<"ipv6", "access-list", name>> >> >>
                   ELSE <<>>)
           remarks ==
             FlatMap(h.comment, LAMBDA comment :
               FlatMap(comment, LAMBDA line :
                 << << <<"remark", Str(line)>> >> >>))
       IN AddTermsFrom([st EXCEPT !.target = @ \o preamble \o remarks],
                       filter_type, filter_name, terms, 1)

\* lines 545-595: the iterations of `for filter_type in filter_list` from
\* the i-th element on
RECURSIVE RenderFilterList(_, _, _, _, _)
RenderFilterList(st, filter_list, h, terms, i) ==
  IF i > Len(filter_list) THEN st
  ELSE RenderFilterList(RenderFilterType(st, filter_list[i].type,
                                         filter_list[i].same, h, terms),
                        filter_list, h, terms, i + 1)

\* lines 528-595: the filter type of a filter and the loop over its
\* filter_list; the state the loop ends in
FilterTarget(h, terms) ==
  LET filter_options == FilterOptions(h)
      given == Len(filter_options) > 1
      filter_type == IF given THEN filter_options[2] ELSE "extended"
      \* the literal 'extended' is one object within cisco.py; an option
      \* of the header is that object only when the header says so
      same == filter_type = "extended" /\ (IF given THEN h.interned ELSE TRUE)
      st0 == [err |-> "ok", target |-> <<>>, terms |-> <<>>, parts |-> <<>>]
      \* lines 541-544: filter_list, with the value of
      \* `filter_type is 'extended'` for each element
      filter_list ==
        IF filter_type = "mixed"
          THEN <<[type |-> "extended", same |-> TRUE],
                 [type |-> "inet6", same |-> FALSE]>>
          ELSE <<[type |-> filter_type, same |-> same]>>
  IN IF filter_type \notin GoodFilters
       THEN [st0 EXCEPT !.err = "UnsupportedCiscoAccessListError"]
       ELSE RenderFilterList(st0, filter_list, h, terms, 1)

\* lines 597-603: the document returned once the loop over filter_list
\* has ended in the state st1
TargetDocument(st1) ==
  IF st1.err # "ok"
    THEN [status |-> st1.err, lines |-> <<>>, parts |-> <<>>]
    ELSE [status |-> "ok",
          lines |-> JoinNL(TargetHeader
                           \o (IF Len(st1.terms) > 0
                                 THEN <<ObjectGroupStr(st1.terms)>> ELSE <<>>)
                           \o st1.target),
          parts |-> st1.parts]

\* lines 528-603: the body of `for header, terms in self.policy.filters`,
\* which ends in the return statement of line 603
RenderFilter(h, terms) == TargetDocument(FilterTarget(h, terms))

\* the outcome of no render call
NoDoc == [status |-> "none", lines |-> <<>>, parts |-> <<>>]

\* Cisco.__str__ that also runs the high-port loop of the constructor
CiscoStrHighPorts(p) ==
  [doc |-> IF Len(p) = 0
             THEN [status |-> "TypeError", lines |-> <<>>, parts |-> <<>>]
             ELSE RenderFilter(p[1].header, p[1].terms),
   pol |-> HighPortsAll(p)]

\* lines 512-603: Cisco.__str__ on the policy p: the document returned (doc)
\* and the policy as the call leaves it (pol).  The for loop over the
\* filters returns at the end of its first iteration; over no filter the
\* method returns None, which str() answers with a TypeError.
CiscoStr(p) ==
  [doc |-> IF Len(p) = 0
             THEN [status |-> "TypeError", lines |-> <<>>, parts |-> <<>>]
             ELSE RenderFilter(p[1].header, p[1].terms),
   pol |-> p]

----------------------------------------------------------------------------
(* The inputs of the model.                                                *)

\* all lists over S of at most n elements
SeqsUpTo(S, n) == UNION {[1..k -> S] : k \in 0..n}

\* the first k elements of the list s
Prefix(s, k) == SubSeq(s, 1, Min(k, Len(s)))

NetA == Addr(4, "10.0.0.0", 8, "NET_A")
NetA2 == Addr(4, "172.16.1.0", 24, "NET_A")
HostB == Addr(4, "192.168.1.1", 32, "HOST_B")
Net6 == Addr(6, "2001:db8::", 32, "NET_SIX")
Host6 == Addr(6, "2001:db8::1", 128, "HOST_SIX")

PortList == << <<80, 80>>, <<1024, 65535>>, <<53, 53>>, <<22, 22>> >>
\* protocols by name, in several spellings
ProtoTcp == ProtoName(<<"t", "c", "p">>)
ProtoUdp == ProtoName(<<"u", "d", "p">>)
ProtoIcmp == ProtoName(<<"i", "c", "m", "p">>)
ProtoGre == ProtoName(<<"g", "r", "e">>)
ProtoIp == ProtoName(<<"i", "p">>)
ProtoTcpUpper == ProtoName(<<"T", "C", "P">>)
ProtoTcpMixed == ProtoName(<<"T", "c", "p">>)
ProtoIcmpUpper == ProtoName(<<"I", "C", "M", "P">>)
ProtoBogus == ProtoName(<<"b", "o", "g", "u", "s">>)

ProtoList == <<ProtoTcp, ProtoUdp, ProtoIcmp, ProtoGre>>

Comment1 == << << <<"h", "i">>, <<"y", "o", "u">> >> >>

VerbatimCisco == <<"cisco", "raw-cisco">>
VerbatimJuniper == <<"juniper", "raw-juniper">>

\* terms that differ in the sizes and the families of the five fields the
\* extended renderer multiplies
ProductTerms ==
  {[EmptyTerm EXCEPT !.source_address = sa, !.destination_address = da,
                     !.source_port = Prefix(PortList, p),
                     !.destination_port = Prefix(PortList, q),
                     !.protocol = Prefix(ProtoList, r)] :
     sa \in SeqsUpTo({NetA, Net6}, MaxAddrs),
     da \in SeqsUpTo({HostB, Host6}, MaxAddrs),
     p \in 0..MaxPorts, q \in 0..MaxPorts, r \in 0..MaxProtos}

\* terms that set any of the fields a standard ACL term must not set
StandardTerms ==
  {[EmptyTerm EXCEPT !.protocol = pr, !.source_address = sa,
                     !.source_address_exclude = sx,
                     !.destination_address = da,
                     !.destination_address_exclude = dx,
                     !.option = op, !.source_port = sp,
                     !.destination_port = dp, !.counter = cn,
                     !.logging = lg, !.address = <<NetA2, Net6, HostB>>] :
     pr \in {<<>>, <<ProtoTcp>>},
     sa \in {<<>>, <<NetA>>}, sx \in {<<>>, <<NetA>>},
     da \in {<<>>, <<HostB>>}, dx \in {<<>>, <<HostB>>},
     op \in {<<>>, <<OptSample>>},
     sp \in {<<>>, << <<80, 80>> >>}, dp \in {<<>>, << <<80, 80>> >>},
     cn \in {<<>>, <<"cnt">>}, lg \in {<<>>, <<"true">>}}

\* terms with options, protocols in several spellings, logging, actions
OptionTerms ==
  {[EmptyTerm EXCEPT !.option = op, !.protocol = pr, !.logging = lg,
                     !.action = <<ac>>, !.comment = Comment1] :
     op \in {<<OptEstablished>>, <<OptTcpEstablished>>, <<OptSample>>,
             <<OptSample, OptEstablished>>,
             <<OptEstablished, OptTcpEstablished>>},
     pr \in {<<>>, <<ProtoTcp>>, <<ProtoUdp>>, <<ProtoTcpUpper>>,
             <<ProtoTcpMixed>>, <<ProtoIcmpUpper>>, <<ProtoGre>>, <<ProtoIp>>,
             <<ProtoNum(6)>>, <<ProtoBogus>>, <<ProtoUdp, ProtoTcp>>},
     lg \in {<<>>, <<"true">>},
     ac \in {"accept", "next", "count"}}

\* terms with a verbatim list, and terms with exclusions
VerbatimTerms ==
  {[b EXCEPT !.verbatim = vb] :
     b \in {[EmptyTerm EXCEPT !.comment = Comment1],
            [EmptyTerm EXCEPT !.protocol = <<ProtoTcp>>,
                              !.source_address = <<NetA>>,
                              !.destination_port = << <<80, 80>> >>],
            [EmptyTerm EXCEPT !.address = <<NetA2, HostB>>]},
     vb \in SeqsUpTo({VerbatimCisco, VerbatimJuniper}, 2) \ {<<>>}}

ExcludeTerms ==
  {[EmptyTerm EXCEPT !.source_address = <<NetA, NetA2, Net6>>,
                     !.source_address_exclude = sx,
                     !.destination_address = <<HostB, Host6>>,
                     !.destination_address_exclude = dx] :
     sx \in {<<NetA2>>, <<Net6>>, <<NetA, NetA2>>},
     dx \in {<<>>, <<HostB>>}}

TermSpace ==
  ProductTerms \cup StandardTerms \cup OptionTerms \cup VerbatimTerms
  \cup ExcludeTerms

\* the terms of the object-group filters
GroupTerm1 ==
  [EmptyTerm EXCEPT !.name = "g1", !.protocol = <<ProtoTcp>>,
                    !.source_address = <<NetA, NetA2>>,
                    !.destination_address = <<HostB>>,
                    !.destination_port = << <<80, 80>> >>]
GroupTerm2 ==
  [EmptyTerm EXCEPT !.name = "g2", !.source_address = <<NetA>>,
                    !.destination_port = << <<80, 80>>, <<1024, 65535>> >>]
GroupTerm3 ==
  [EmptyTerm EXCEPT !.name = "g3", !.protocol = <<ProtoUdp>>,
                    !.source_address = <<HostB>>,
                    !.destination_address = <<NetA>>,
                    !.source_port = << <<1024, 65535>> >>]
GroupTerm4 ==
  [EmptyTerm EXCEPT !.name = "g4", !.source_address = <<Net6>>]

GroupTerms == {GroupTerm1, GroupTerm2, GroupTerm3, GroupTerm4}

WebTerm ==
  [EmptyTerm EXCEPT !.name = "allow-web", !.protocol = <<ProtoTcp>>,
                    !.destination_port = << <<80, 80>> >>]
EstTcpTerm ==
  [EmptyTerm EXCEPT !.name = "est-tcp", !.protocol = <<ProtoTcp>>,
                    !.source_address = <<NetA, Net6>>,
                    !.option = <<OptEstablished>>]
EstUdpTerm ==
  [EmptyTerm EXCEPT !.name = "est-udp", !.protocol = <<ProtoUdp>>,
                    !.option = <<OptEstablished>>]
TcpEstTerm ==
  [EmptyTerm EXCEPT !.name = "tcp-est", !.protocol = <<ProtoTcp>>,
                    !.option = <<OptTcpEstablished>>,
                    !.logging = <<"true">>]
StdTerm ==
  [EmptyTerm EXCEPT !.name = "std", !.address = <<NetA2, HostB>>]
VerbTerm ==
  [EmptyTerm EXCEPT !.name = "verb", !.verbatim = <<VerbatimCisco>>]

TermLists ==
  {<<WebTerm, VerbTerm>>, <<EstTcpTerm, EstUdpTerm>>, <<StdTerm>>,
   <<TcpEstTerm, GroupTerm1, GroupTerm3>>, <<>>}

Name50 == <<"5", "0">>
Name100 == <<"1", "0", "0">>
Name0 == <<"0">>
NameAcl == <<"a", "c", "l">>
NameTwo == <<"t", "w", "o">>

FirstHeaders ==
  {Header(<<"cisco">>, n, st, TRUE, <<>>) :
     n \in {Name50, Name100, NameAcl},
     st \in {<<>>, <<"extended">>, <<"standard">>, <<"object-group">>}}
  \cup {Header(<<"cisco">>, n, <<"extended">>, FALSE, <<>>) :
          n \in {Name50, NameAcl}}
  \cup {Header(<<"cisco">>, NameAcl, st, TRUE, Comment1) :
          st \in {<<"inet6">>, <<"mixed">>, <<"bogus">>}}
  \cup {Header(<<"cisco">>, Name50, <<"mixed">>, TRUE, <<>>)}
  \cup {Header(<<"cisco">>, Name0, st, TRUE, <<>>) :
          st \in {<<>>, <<"standard">>}}
  \cup {Header(<<"juniper">>, NameAcl, <<>>, TRUE, <<>>),
        Header(<<"juniper", "cisco">>, NameAcl, <<>>, TRUE, <<>>)}

FirstFilters ==
  {[header |-> h, terms |-> ts] : h \in FirstHeaders, ts \in TermLists}

LaterFilters ==
  {[header |-> Header(<<"cisco">>, NameTwo, <<>>, TRUE, <<>>),
    terms |-> <<[WebTerm EXCEPT !.name = "web-two"]>>],
   [header |-> Header(<<"juniper">>, NameTwo, <<>>, TRUE, <<>>),
    terms |-> <<WebTerm>>],
   [header |-> Header(<<"cisco">>, NameTwo, <<"object-group">>, TRUE, <<>>),
    terms |-> <<EstTcpTerm>>]}

Policies ==
  {<<>>} \cup
  {<<f>> \o rest : f \in FirstFilters,
                   rest \in SeqsUpTo(LaterFilters, MaxFilters - 1)}

----------------------------------------------------------------------------
(* The state machine.                                                      *)

NoOut == [op |-> "none", af |-> 0, err |-> "", lines |-> <<>>]
NoGroupOut == [done |-> FALSE, lines |-> <<>>]

\* the filter name the term renderers are given when called on their own
TermFilterName == Name50

InitRest(p, t) ==
  /\ pol = p /\ acl = "none" /\ ncons = 0 /\ nrender = 0 /\ doc = NoDoc
  /\ term = t /\ tout = NoOut
  /\ og = <<>> /\ oglines = <<>> /\ ogout = NoGroupOut

\* the assembler over a policy
Init == \E p \in Policies : InitRest(p, EmptyTerm)

\* Cisco(pol)
Construct ==
  /\ ncons < MaxCons
  /\ \E r \in {CiscoInit(pol)} : acl' = r.err /\ pol' = r.pol
  /\ ncons' = ncons + 1
  /\ nrender' = 0
  /\ doc' = NoDoc
  /\ UNCHANGED <<term, tout, og, oglines, ogout>>

\* str(acl) of a constructed assembler
Render ==
  /\ acl = "ok"
  /\ nrender < MaxRenders
  /\ \E r \in {CiscoStr(pol)} : doc' = r.doc /\ pol' = r.pol
  /\ nrender' = nrender + 1
  /\ UNCHANGED <<acl, ncons, term, tout, og, oglines, ogout>>

Next == Construct \/ Render

Spec == Init /\ [][Next]_vars

\* the term renderers, each called on a term of its own
InitTerm == \E t \in TermSpace : InitRest(<<>>, t)

\* str(TermStandard(term, filter_name))
RenderStandard ==
  /\ tout.op = "none"
  /\ tout' = [op |-> "standard", af |-> 4, err |-> TermStandardInit(term),
              lines |-> IF TermStandardInit(term) = "ok"
                          THEN TermStandardStr(term, Str(TermFilterName))
                          ELSE <<>>]
  /\ UNCHANGED <<pol, acl, ncons, nrender, doc, term, og, oglines, ogout>>

\* str(Term(term)) and str(Term(term, 6))
RenderExtended ==
  /\ tout.op = "none"
  /\ \E af \in {4, 6} :
       tout' = [op |-> "extended", af |-> af, err |-> "ok",
                lines |-> TermStr(term, af)]
  /\ UNCHANGED <<pol, acl, ncons, nrender, doc, term, og, oglines, ogout>>

\* str(ObjectGroupTerm(term, filter_name))
RenderObjectGroupTerm ==
  /\ tout.op = "none"
  /\ tout' = [op |-> "object-group", af |-> 4, err |-> "ok",
              lines |-> ObjectGroupTermStr(term)]
  /\ UNCHANGED <<pol, acl, ncons, nrender, doc, term, og, oglines, ogout>>

NextTerm == RenderStandard \/ RenderExtended \/ RenderObjectGroupTerm

SpecTerm == InitTerm /\ [][NextTerm]_vars

\* the object-group branch of the assembler: terms are added to the
\* collector and rendered one by one, then the collector is rendered
InitGroup == InitRest(<<>>, EmptyTerm)

\* lines 589-591: obj_target.AddTerm(term); str(ObjectGroupTerm(term, ...))
AddTerm ==
  /\ ~ogout.done
  /\ Len(og) < MaxGroupTerms
  /\ \E t \in GroupTerms :
       /\ og' = Append(og, t)
       /\ oglines' = Append(oglines, ObjectGroupTermStr(t))
  /\ UNCHANGED <<pol, acl, ncons, nrender, doc, term, tout, ogout>>

\* lines 597-598: if obj_target.valid: str(obj_target)
RenderObjectGroup ==
  /\ ~ogout.done
  /\ Len(og) > 0
  /\ ogout' = [done |-> TRUE, lines |-> ObjectGroupStr(og)]
  /\ UNCHANGED <<pol, acl, ncons, nrender, doc, term, tout, og, oglines>>

NextGroup == AddTerm \/ RenderObjectGroup

SpecGroup == InitGroup /\ [][NextGroup]_vars

----------------------------------------------------------------------------
(* Helpers of the properties.                                              *)

\* the lines of block occur in lines, as one run starting after line at
OccursAt(lines, block, at) ==
  /\ at + Len(block) <= Len(lines)
  /\ \A k \in 1..Len(block) : lines[at + k] = block[k]

Contains(lines, block) == \E at \in 0..Len(lines) : OccursAt(lines, block, at)

\* the match lines of a rendered term: the lines that begin with a blank
MatchLines(lines) == Filter(lines, LAMBDA l : Len(l) >= 2 /\ l[1] = "")

\* the number of lines equal to l
CountLine(lines, l) == Cardinality({k \in 1..Len(lines) : lines[k] = l})

\* the filter type a header declares
DeclaredType(h) == IF Len(h.subtype) > 0 THEN h.subtype[1] ELSE "extended"

\* the name is purely numeric with a value in 1..99
NumericInRange(name) == IsDigit(name) /\ InStandardRange(name)

\* the protocols of a term, resolved
Resolved(t) == [i \in 1..Len(t.protocol) |-> FixupProtocol(t.protocol[i])]

----------------------------------------------------------------------------
(* Properties of the assembler, under Spec.                                *)

\* C1: the document of a policy of k >= 1 filters holds, for every filter
\* of the policy that renders on its own, the preamble and the rendered
\* terms of that filter, and the filters follow one another in the order
\* of their declaration.
C1_AllFiltersRendered ==
  (doc.status = "ok" /\ Len(pol) >= 1) =>
    LET ok == {i \in 1..Len(pol) :
                 FilterTarget(pol[i].header, pol[i].terms).err = "ok"}
        Block(i) == JoinNL(FilterTarget(pol[i].header, pol[i].terms).target)
    IN /\ \A i \in ok : Contains(doc.lines, Block(i))
       /\ \A i, j \in ok : i < j =>
            \E a, b \in 0..Len(doc.lines) :
              /\ a < b
              /\ OccursAt(doc.lines, Block(i), a)
              /\ OccursAt(doc.lines, Block(j), b)

\* C2: constructing the assembler over a policy with at least one header
\* raises NoCiscoPolicyError exactly when no header names 'cisco'.
C2_RaisesIffNoCiscoHeader ==
  (acl # "none" /\ Len(pol) >= 1) =>
    (acl = "NoCiscoPolicyError" <=>
       \A i \in 1..Len(pol) : ~InSeq("cisco", pol[i].header.platforms))

\* C3: rendering a filter declared extended or object-group raises
\* UnsupportedCiscoAccessListError exactly when its name is purely numeric
\* with a value in 1..99; rendering a filter declared standard raises it
\* exactly when the name is not such a number.
C3_NameValidation ==
  (doc.status # "none" /\ Len(pol) >= 1) =>
    LET h == pol[1].header
        raised == doc.status = "UnsupportedCiscoAccessListError"
    IN /\ DeclaredType(h) \in {"extended", "object-group"} =>
            (raised <=> NumericInRange(FilterName(h)))
       /\ DeclaredType(h) = "standard" =>
            (raised <=> ~NumericInRange(FilterName(h)))

\* C7: once the assembler is constructed, every term with the option
\* `established` has the range (1024, 65535) among its destination ports;
\* in a rendered document, the match lines of an extended-rendered term
\* with the option `established` or `tcp-established` and TCP among its
\* resolved protocols all hold the keyword `established`, and no line of
\* a term whose protocols are UDP only holds it.
C7_Established ==
  /\ acl = "ok" =>
       \A i \in 1..Len(pol) : \A j \in 1..Len(pol[i].terms) :
         InSeq(OptEstablished, pol[i].terms[j].option) =>
           InSeq(<<1024, 65535>>, pol[i].terms[j].destination_port)
  /\ doc.status = "ok" =>
       \A k \in 1..Len(doc.parts) :
         LET part == doc.parts[k]
             t == part.t
         IN (part.ftype \in {"extended", "inet6"} /\ ~Truthy(t.verbatim)) =>
              /\ ( /\ \/ InSeq(OptEstablished, t.option)
                       \/ InSeq(OptTcpEstablished, t.option)
                    /\ HasTcp(Resolved(t)) ) =>
                   \A n \in 1..Len(MatchLines(part.lines)) :
                     InSeq("established", MatchLines(part.lines)[n])
              /\ ( /\ Truthy(t.protocol)
                    /\ \A n \in 1..Len(t.protocol) :
                         Resolved(t)[n] = ProtoNum(17) ) =>
                   \A n \in 1..Len(part.lines) :
                     ~InSeq("established", part.lines[n])

\* witness of C7: a rendered document with an extended term that has the
\* option, TCP and the high ports, whose match lines are in the document
C7_Witness ==
  /\ acl = "ok" /\ doc.status = "ok"
  /\ \E k \in 1..Len(doc.parts) :
       LET part == doc.parts[k] IN
         /\ part.ftype = "extended"
         /\ InSeq(OptEstablished, part.t.option)
         /\ HasTcp(Resolved(part.t))
         /\ InSeq(<<1024, 65535>>, part.t.destination_port)
         /\ Len(MatchLines(part.lines)) >= 1
         /\ InSeq("established", MatchLines(part.lines)[1])
         /\ Contains(doc.lines, part.lines)
  /\ \E k \in 1..Len(doc.parts) :
       /\ doc.parts[k].t.protocol = <<ProtoUdp>>
       /\ InSeq(OptEstablished, doc.parts[k].t.option)
       /\ Len(MatchLines(doc.parts[k].lines)) >= 1

\* C10: a render call leaves the policy, and so every field of every
\* term, as it was, and a render call that follows another one on the
\* same assembler returns the same document.
C10_RenderNoCarryOver ==
  [][nrender' = nrender + 1 =>
       /\ pol' = pol
       /\ nrender >= 1 => doc' = doc]_vars

\* witness of C10: the second render of an object-group filter with group
\* definitions, over a policy that holds the synthetic range
C10_Witness ==
  /\ nrender >= 2 /\ doc.status = "ok"
  /\ \E n \in 1..Len(doc.lines) :
       Len(doc.lines[n]) >= 1 /\ doc.lines[n][1] = "object-group"
  /\ \E j \in 1..Len(pol[1].terms) :
       InSeq(<<1024, 65535>>, pol[1].terms[j].destination_port)

----------------------------------------------------------------------------
(* Properties of the term renderers, under SpecTerm.                       *)

\* the size of a field in the product: an unset field counts as one
Size(field) == IF Truthy(field) THEN Len(field) ELSE 1

\* the address at position i of a field is set and of another family than af
OtherFamily(field, i, af) == Truthy(field) /\ field[i].version # af

\* C5: for a term without verbatim list and without exclusions, the
\* extended renderer emits n*m*p*q*r match lines less the combinations
\* whose source or destination address is not of the family rendered;
\* a term whose source (or destination) addresses are all of the other
\* family has no match line.
C5_LineCount ==
  ( /\ tout.op = "extended"
    /\ ~Truthy(term.verbatim)
    /\ ~Truthy(term.source_address_exclude)
    /\ ~Truthy(term.destination_address_exclude) ) =>
    LET n == Size(term.source_address)
        m == Size(term.destination_address)
        p == Size(term.source_port)
        q == Size(term.destination_port)
        r == Size(term.protocol)
        dropped ==
          {c \in (1..n) \X (1..m) \X (1..p) \X (1..q) \X (1..r) :
             \/ OtherFamily(term.source_address, c[1], tout.af)
             \/ OtherFamily(term.destination_address, c[2], tout.af)}
    IN /\ Len(MatchLines(tout.lines)) = n * m * p * q * r - Cardinality(dropped)
       /\ ( \/ /\ Truthy(term.source_address)
                /\ \A i \in 1..n : term.source_address[i].version # tout.af
             \/ /\ Truthy(term.destination_address)
                /\ \A i \in 1..m :
                     term.destination_address[i].version # tout.af ) =>
            Len(MatchLines(tout.lines)) = 0

\* witness of C5: a term of two source addresses, one of each family, and
\* of two protocols, rendered with some combinations dropped and some kept
C5_Witness ==
  /\ tout.op = "extended" /\ tout.af = 4
  /\ ~Truthy(term.verbatim)
  /\ Len(term.source_address) = 2
  /\ term.source_address[1].version = 4
  /\ term.source_address[2].version = 6
  /\ term.destination_address = <<>>
  /\ Len(term.protocol) = 2 /\ Len(term.destination_port) = 2
  /\ Len(term.source_port) = 1
  /\ Len(MatchLines(tout.lines)) = 4

\* C6: constructing a standard ACL term raises StandardAclTermError if
\* and only if the term sets a protocol, a source or destination address
\* or exclusion, an option, a source or destination port, a counter, or
\* logging.
C6_StandardInit ==
  tout.op = "standard" =>
    (tout.err = "StandardAclTermError" <=>
       \/ Truthy(term.protocol)
       \/ Truthy(term.source_address)
       \/ Truthy(term.source_address_exclude)
       \/ Truthy(term.destination_address)
       \/ Truthy(term.destination_address_exclude)
       \/ Truthy(term.option)
       \/ Truthy(term.source_port)
       \/ Truthy(term.destination_port)
       \/ Truthy(term.counter)
       \/ Truthy(term.logging))

\* witness of C6: the construction raised for a term that sets logging
\* and none of the other fields
C6_Witness ==
  /\ tout.op = "standard" /\ tout.err = "StandardAclTermError"
  /\ Truthy(term.logging)
  /\ ~Truthy(term.protocol) /\ ~Truthy(term.option) /\ ~Truthy(term.counter)
  /\ ~Truthy(term.source_address) /\ ~Truthy(term.destination_address)
  /\ ~Truthy(term.source_address_exclude)
  /\ ~Truthy(term.destination_address_exclude)
  /\ ~Truthy(term.source_port) /\ ~Truthy(term.destination_port)
  /\ Truthy(term.address)

\* C8: a term whose verbatim list holds an entry for 'cisco', at any
\* position of the list, renders in each of the three term renderers as
\* its remark lines followed by the text of that entry, with no match line.
C8_Verbatim ==
  (tout.op # "none" /\ tout.err = "ok" /\ Truthy(term.verbatim)) =>
    LET cisco == {i \in 1..Len(term.verbatim) : term.verbatim[i][1] = "cisco"}
    IN cisco # {} =>
         /\ Len(MatchLines(tout.lines)) = 0
         /\ \E i \in cisco :
              tout.lines[Len(tout.lines)] = <<term.verbatim[i][2]>>

\* the word of the match line l that holds its protocol: it follows the
\* leading blank and the words of the action
LineProtocol(l, action) == l[Len(ActionWords(action)) + 2]

\* the number of words of the line l equal to w
CountWord(l, w) == Cardinality({k \in 1..Len(l) : l[k] = w})

\* C11: in the text of the extended renderer, a match line holds the
\* keyword `established` only if the protocol of that line is TCP (6), so
\* the lines of the other protocols of a term with several protocols do
\* not hold it, and no match line holds the keyword more than once.
C11_EstablishedOnTcpLinesOnly ==
  (tout.op = "extended" /\ ~Truthy(term.verbatim)) =>
    \A n \in 1..Len(MatchLines(tout.lines)) :
      LET l == MatchLines(tout.lines)[n]
      IN /\ InSeq("established", l) =>
              LineProtocol(l, term.action[1]) = ProtoStr(ProtoNum(6))
         /\ CountWord(l, "established") <= 1

----------------------------------------------------------------------------
(* Properties of the object-group renderer, under SpecGroup.               *)

\* the parent tokens of the first IPv4 source or destination address of
\* the terms
FirstTokens(terms) ==
  {GetAddressOfVersion(terms[k].source_address, 4)[1].parent_token :
     k \in {j \in 1..Len(terms) :
              Truthy(GetAddressOfVersion(terms[j].source_address, 4))}}
  \cup
  {GetAddressOfVersion(terms[k].destination_address, 4)[1].parent_token :
     k \in {j \in 1..Len(terms) :
              Truthy(GetAddressOfVersion(terms[j].destination_address, 4))}}

\* the non-empty port pairs of the terms
PortPairs(terms) ==
  UNION {{(terms[k].source_port \o terms[k].destination_port)[i] :
            i \in 1..Len(terms[k].source_port \o terms[k].destination_port)} :
         k \in 1..Len(terms)} \ {<<>>}

\* the lines that open a group of the given kind ("address" or "port")
GroupHeads(lines, kind) ==
  Filter(lines, LAMBDA l : Len(l) = 4 /\ l[1] = "object-group" /\ l[3] = kind)

\* C4: the group definitions of the terms added hold exactly one block
\* `object-group ip address <token>` for each token that is the parent
\* token of the first IPv4 source or destination address of a term, and
\* exactly one block `object-group ip port <low>-<high>` for each port pair.
C4_GroupsOnce ==
  ogout.done =>
    /\ \A tok \in FirstTokens(og) :
         CountLine(ogout.lines, <<"object-group", "ip", "address", tok>>) = 1
    /\ Len(GroupHeads(ogout.lines, "address")) = Cardinality(FirstTokens(og))
    /\ \A pair \in PortPairs(og) :
         CountLine(ogout.lines,
                   <<"object-group", "ip", "port",
                     (IntToStr(pair[1]) \o "-") \o IntToStr(pair[2])>>) = 1
    /\ Len(GroupHeads(ogout.lines, "port")) = Cardinality(PortPairs(og))

\* witness of C4: group definitions rendered for at least four terms, three
\* of which share the token of their first source address, with a token
\* that is the source of one term and the destination of another
C4_Witness ==
  /\ ogout.done /\ Len(og) >= 4
  /\ Cardinality({k \in 1..Len(og) :
                    /\ Truthy(og[k].source_address)
                    /\ og[k].source_address[1].parent_token = "NET_A"}) >= 3
  /\ \E j, k \in 1..Len(og) :
       /\ Truthy(og[j].source_address) /\ Truthy(og[k].destination_address)
       /\ og[j].source_address[1].parent_token = "HOST_B"
       /\ og[k].destination_address[1].parent_token = "HOST_B"
  /\ CountLine(ogout.lines, <<"object-group", "ip", "address", "NET_A">>) = 1
  /\ CountLine(ogout.lines, <<"object-group", "ip", "port", "80-80">>) = 1

\* the words that follow the word `addrgroup` in a line
GroupRefs(l) == {l[i + 1] : i \in {j \in 1..(Len(l) - 1) : l[j] = "addrgroup"}}

\* the parent tokens a term line may name for an address field
FieldTokens(field) ==
  IF Truthy(field) THEN {field[i].parent_token : i \in 1..Len(field)}
                   ELSE {"ANY"}

\* C9: in object-group mode every name that follows `addrgroup` in a term
\* line is the parent token of a source or destination address of the
\* term (ANY for an empty field), and every address group a term line
\* refers to is defined by a block of the group definitions.
C9_AddrGroupNames ==
  /\ \A k \in 1..Len(og) :
       \A n \in 1..Len(MatchLines(oglines[k])) :
         GroupRefs(MatchLines(oglines[k])[n]) \subseteq
           FieldTokens(og[k].source_address)
           \cup FieldTokens(og[k].destination_address)
  /\ ogout.done =>
       \A k \in 1..Len(og) :
         \A n \in 1..Len(MatchLines(oglines[k])) :
           \A ref \in GroupRefs(MatchLines(oglines[k])[n]) :
             CountLine(ogout.lines,
                       <<"object-group", "ip", "address", ref>>) >= 1

====
